---- MODULE Spec2Model ----
(***************************************************************************)
(* Model of src/main.py: VoiceConverter (pitch_shift, formant_shift,       *)
(* apply_female_characteristics, convert_to_female_voice) and the request  *)
(* handler process_voice running on the module-level converter.            *)
(*                                                                         *)
(* Three specifications share the module:                                  *)
(*   SpecFormant    the bin-remapping loop of formant_shift (lines 29-35)  *)
(*   SpecNormalize  the peak normalisation and the write (lines 75-81)     *)
(*   Spec           two concurrent process_voice requests (lines 60-127)   *)
(***************************************************************************)
EXTENDS Integers, Sequences, FiniteSets, TLC

VARIABLES
    \* ---- formant_shift bin loop (SpecFormant) ----
    freq_bins,       \* magnitude.shape[0]
    shift_factor,    \* numerator of shift_factor over FactorDen
    magnitude,       \* magnitude[i+1] is the row of bin i (one number stands for the row)
    new_magnitude,   \* the rebuilt spectrum, bin d at index d+1
    writes,          \* log of the assignments of line 35: <<source bin, destination bin>>
    fpc,             \* "call" before formant_shift's loop, "done" after it
    \* ---- normalisation (SpecNormalize) ----
    S,               \* the samples entering librosa.util.normalize, in float quanta
    Snorm,           \* the samples leaving it: [num, den], sample k is num[k] / den quanta
    npc,             \* "normalize", "write", "returned"
    \* ---- process_voice requests (Spec) ----
    sample_rate,     \* converter.sample_rate, shared by all requests
    temp_count,      \* temporary names handed out so far by tempfile
    files,           \* the file system: name -> audio content
    audio_input,     \* per request: the value Gradio passes to process_voice
    params,          \* per request: pitch_shift, formant_shift, brightness
    pc,              \* per request: position in process_voice / convert_to_female_voice
    input_path,      \* per request: local input_path of process_voice
    audio,           \* per request: local audio of convert_to_female_voice
    calls,           \* per request: the stages started, in order
    pv_calls,        \* per request: invocations of librosa.effects.pitch_shift
    failed,          \* per request: -1, or Len(calls) when an exception was raised
    output_path,     \* per request: what convert_to_female_voice returned
    result           \* per request: the pair process_voice returned

fvars == <<freq_bins, shift_factor, magnitude, new_magnitude, writes, fpc>>

nvars == <<S, Snorm, npc>>

svars == <<sample_rate, temp_count, files>>

rvars == <<audio_input, params, pc, input_path, audio, calls, pv_calls, failed,
           output_path, result>>

vars == <<fvars, nvars, svars, rvars>>

----------------------------------------------------------------------------
(* Bounds of the model *)

\* largest number of frequency bins drawn for the bin loop
MaxBins == 5
\* magnitudes are drawn from 0..MaxMag
MaxMag == 2
\* shift factors are the rationals k / FactorDen
FactorDen == 4
\* largest numerator k of a shift factor (factor up to MaxFactorNum / FactorDen)
MaxFactorNum == 10

----------------------------------------------------------------------------
(* The parts a specification does not exercise stay in these states *)

FormantIdle ==
    /\ freq_bins = 0 /\ shift_factor = 0 /\ magnitude = <<>>
    /\ new_magnitude = <<>> /\ writes = {} /\ fpc = "idle"

NormalizeIdle ==
    /\ S = <<>> /\ Snorm = [num |-> <<>>, den |-> 1] /\ npc = "idle"

RequestsIdle ==
    /\ sample_rate = 0 /\ temp_count = 0 /\ files = <<>>
    /\ audio_input = <<>> /\ params = <<>> /\ pc = <<>> /\ input_path = <<>>
    /\ audio = <<>> /\ calls = <<>> /\ pv_calls = <<>> /\ failed = <<>>
    /\ output_path = <<>> /\ result = <<>>

----------------------------------------------------------------------------
(* formant_shift, lines 29-35 *)

\* line 30: np.zeros_like(magnitude)
Zeros(n) == [d \in 1..n |-> 0]

\* a destination index computed by rounding to nearest (half to even)
NewFreqRounded(i, f) ==
    LET q == (i * f) \div FactorDen
        r == (i * f) % FactorDen
    IN  IF 2 * r < FactorDen THEN q
        ELSE IF 2 * r > FactorDen THEN q + 1
        ELSE IF q % 2 = 0 THEN q ELSE q + 1

\* line 33: new_freq = int(i * shift_factor); int() truncates, the product is >= 0
NewFreq(i, f) == (i * f) \div FactorDen

\* a range test that is off by one
InRangeInclusive(new_freq, n) == new_freq <= n

\* line 34: if new_freq < freq_bins
InRange(new_freq, n) == new_freq < n

\* a store that adds to what the destination already holds
StoreAdd(nm, new_freq, row) ==
    IF new_freq + 1 \in DOMAIN nm
    THEN [nm EXCEPT ![new_freq + 1] = nm[new_freq + 1] + row]
    ELSE nm

\* a store that keeps the first row written to a destination
StoreFirst(nm, new_freq, row) ==
    IF new_freq + 1 \in DOMAIN nm /\ nm[new_freq + 1] = 0
    THEN [nm EXCEPT ![new_freq + 1] = row]
    ELSE nm

\* line 35: new_magnitude[new_freq] = magnitude[i]
Store(nm, new_freq, row) ==
    IF new_freq + 1 \in DOMAIN nm
    THEN [nm EXCEPT ![new_freq + 1] = row]
    ELSE nm

\* lines 32-35: for i in range(freq_bins), from bin i on
RECURSIVE FormantLoop(_, _, _, _, _, _)
FormantLoop(i, n, f, mag, nm, log) ==
    IF i >= n THEN [new_magnitude |-> nm, writes |-> log]
    ELSE LET new_freq == NewFreq(i, f)
         IN  IF InRange(new_freq, n)
             THEN FormantLoop(i + 1, n, f, mag,
                              Store(nm, new_freq, mag[i + 1]),
                              log \cup {<<i, new_freq>>})
             ELSE FormantLoop(i + 1, n, f, mag, nm, log)

\* lines 29-35: the rebuilt spectrum and the assignments made
FormantBins(n, f, mag) == FormantLoop(0, n, f, mag, Zeros(n), {})

FormantInit ==
    /\ NormalizeIdle /\ RequestsIdle
    /\ freq_bins \in 1..MaxBins
    /\ shift_factor \in 1..MaxFactorNum
    /\ magnitude \in [1..freq_bins -> 0..MaxMag]
    /\ new_magnitude = <<>>
    /\ writes = {}
    /\ fpc = "call"

\* formant_shift's spectrum manipulation, lines 29-35
FormantShiftBins ==
    /\ fpc = "call"
    /\ LET out == FormantBins(freq_bins, shift_factor, magnitude)
       IN  /\ new_magnitude' = out.new_magnitude
           /\ writes' = out.writes
    /\ fpc' = "done"
    /\ UNCHANGED <<freq_bins, shift_factor, magnitude, nvars, svars, rvars>>

FormantNext == FormantShiftBins

SpecFormant == FormantInit /\ [][FormantNext]_vars

----------------------------------------------------------------------------
(* Properties of the bin loop (SpecFormant) *)

\* the source bins whose product i * factor lies in [d, d + 1)
SourcesOf(d) ==
    {i \in 0..(freq_bins - 1) :
        d * FactorDen <= i * shift_factor /\ i * shift_factor < (d + 1) * FactorDen}

Bins == 0..(freq_bins - 1)

\* C1 as stated: source bin i is written to round(i * factor) when that is a
\* valid bin, and to no other bin
C1_WrittenAtRounded ==
    fpc = "done" =>
        writes = {w \in Bins \X Bins : w[2] = NewFreqRounded(w[1], shift_factor)}

\* C1 (amended): source bin i is written to the integer part of i * factor
\* (the product truncated, not rounded) whenever that index is below the bin
\* count, and to no other bin; for factor >= 1 the destination then holds
\* exactly the magnitude of bin i.
C1_WrittenAtTruncated ==
    fpc = "done" =>
        /\ writes = {w \in Bins \X Bins : w[1] \in SourcesOf(w[2])}
        /\ shift_factor >= FactorDen =>
              \A w \in writes : new_magnitude[w[2] + 1] = magnitude[w[1] + 1]

\* a finished loop in which some written bin's product has a fractional part
\* above one half, so truncation and rounding name different destinations
C1_Witness ==
    /\ fpc = "done"
    /\ \E w \in writes :
          /\ 2 * ((w[1] * shift_factor) % FactorDen) > FactorDen
          /\ magnitude[w[1] + 1] > 0
          /\ new_magnitude[w[2] + 1] = magnitude[w[1] + 1]

\* C9: every write lands at an index in 0..N-1; a source bin whose destination
\* is >= N is written nowhere; a destination no source bin maps to is zero
\* once the loop has finished.
C9_DroppedAndGaps ==
    fpc = "done" =>
        /\ \A w \in writes : w[2] \in Bins /\ w[1] \in Bins
        /\ DOMAIN new_magnitude = 1..freq_bins
        /\ \A i \in Bins :
              i * shift_factor >= freq_bins * FactorDen =>
                  \A w \in writes : w[1] # i
        /\ \A d \in Bins : SourcesOf(d) = {} => new_magnitude[d + 1] = 0

\* a finished loop with a dropped non-zero source bin and a gap below it
C9_Witness ==
    /\ fpc = "done"
    /\ \E i \in Bins :
          /\ i * shift_factor >= freq_bins * FactorDen
          /\ magnitude[i + 1] > 0
    /\ \E d \in Bins : SourcesOf(d) = {} /\ new_magnitude[d + 1] = 0
    /\ writes # {}

MaxOf(xs) == CHOOSE m \in xs : \A x \in xs : x <= m

\* C10: with 0 < factor < 1 a destination that several source bins map to
\* holds the magnitude of the highest-indexed of them alone (overwritten,
\* never summed).
C10_LastWriterWins ==
    (fpc = "done" /\ shift_factor < FactorDen) =>
        \A d \in Bins :
            SourcesOf(d) # {} =>
                new_magnitude[d + 1] = magnitude[MaxOf(SourcesOf(d)) + 1]

\* a finished loop with factor < 1 where two non-zero bins of different
\* magnitude collide and the lower one's magnitude is gone
C10_Witness ==
    /\ fpc = "done"
    /\ shift_factor < FactorDen
    /\ \E d \in Bins :
          \E i, j \in SourcesOf(d) :
              /\ i < j
              /\ magnitude[i + 1] > 0 /\ magnitude[j + 1] > 0
              /\ magnitude[i + 1] # magnitude[j + 1]
              /\ j = MaxOf(SourcesOf(d))
              /\ new_magnitude[d + 1] = magnitude[j + 1]

----------------------------------------------------------------------------
(* librosa.util.normalize as called on line 75 (norm = inf, threshold = None, *)
(* fill = None).  Samples are integers counting float quanta: Tiny quanta is  *)
(* the smallest normal float, np.finfo(dtype).tiny, and One quanta is 1.0.    *)
(* The float format is scaled down; only Tiny <= One matters to the code.     *)

\* np.finfo(S.dtype).tiny, the default threshold of librosa.util.normalize
Tiny == 4
\* the value 1.0
One == 16
\* signals entering the normalisation have at most MaxLen samples
MaxLen == 3

SampleValues == {0, 1, -1, Tiny - 1, Tiny, -Tiny, One, -(One + One)}

Abs(x) == IF x < 0 THEN -x ELSE x

\* np.max(np.abs(S)) of a non-empty signal
Peak(s) == MaxOf({Abs(s[k]) : k \in DOMAIN s})

\* a threshold test that never fires, so a zero peak is divided by
SmallIdxNever(length) == FALSE

\* small_idx = length < threshold
SmallIdx(length) == length < Tiny

\* Snorm = S / length with length[small_idx] = 1.0; sample k is num[k] / den
Normalize(s) ==
    LET length == Peak(s)
    IN  [num |-> s, den |-> IF SmallIdx(length) THEN One ELSE length]

NormalizeInit ==
    /\ FormantIdle /\ RequestsIdle
    /\ S \in UNION {[1..n -> SampleValues] : n \in 0..MaxLen}
    /\ Snorm = [num |-> <<>>, den |-> 1]
    /\ npc = "normalize"

\* line 75 on a non-empty signal
NormalizeStep ==
    /\ npc = "normalize"
    /\ S # <<>>
    /\ Snorm' = Normalize(S)
    /\ npc' = "normalized"
    /\ UNCHANGED <<S, fvars, svars, rvars>>

\* line 75 on an empty signal: np.max of a zero-size array raises ValueError
NormalizeRaise ==
    /\ npc = "normalize"
    /\ S = <<>>
    /\ npc' = "raised"
    /\ UNCHANGED <<S, Snorm, fvars, svars, rvars>>

NormalizeNext == NormalizeStep \/ NormalizeRaise

SpecNormalize == NormalizeInit /\ [][NormalizeNext]_vars

----------------------------------------------------------------------------
(* Properties of the normalisation (SpecNormalize) *)

\* the output holds no sample above 1.0 in absolute value
BoundedByOne == \A k \in DOMAIN Snorm.num : Abs(Snorm.num[k]) <= Snorm.den

\* the output is the input, sample for sample
Untouched == Snorm.num = S /\ Snorm.den = One

\* the largest output sample is exactly 1.0
PeakIsOne == Snorm.den > 0 /\ Peak(Snorm.num) = Snorm.den

\* C6 as stated: no output sample above 1.0; every signal with a non-zero
\* peak leaves with peak 1.0; an all-zero signal is left untouched.
C6_NonZeroPeakBecomesOne ==
    npc = "normalized" =>
        /\ BoundedByOne
        /\ Peak(S) # 0 => PeakIsOne
        /\ Peak(S) = 0 => Untouched

\* C6 (amended): no output sample is above 1.0 in absolute value; a signal
\* whose peak is at least the smallest normal float leaves with peak exactly
\* 1.0; a signal whose peak is below it (all-zero, or non-zero but subnormal)
\* is left untouched, without a division by zero, and the step does not raise.
C6_NormalizedOrUntouched ==
    /\ npc = "normalized" =>
          /\ BoundedByOne
          /\ Peak(S) >= Tiny => PeakIsOne
          /\ Peak(S) < Tiny => Untouched
    /\ npc = "raised" => S = <<>>

\* a normalised signal that is silent, one that is scaled down to peak 1.0
\* and one whose non-zero peak is below the threshold are all reached
C6_Witness ==
    /\ npc = "normalized"
    /\ Len(S) = MaxLen
    /\ Peak(S) > 0 /\ Peak(S) < Tiny
    /\ Untouched

C6_WitnessScaled ==
    /\ npc = "normalized"
    /\ Peak(S) > One
    /\ PeakIsOne
    /\ \E k \in DOMAIN S : S[k] # 0 /\ Abs(S[k]) < Peak(S)

C6_WitnessSilent ==
    /\ npc = "normalized"
    /\ Peak(S) = 0
    /\ Untouched

----------------------------------------------------------------------------
(* process_voice and convert_to_female_voice, lines 52-127, for the requests *)
(* Gradio runs concurrently on the module-level converter (line 88).         *)

Requests == {1, 2}

\* line 15: self.sample_rate = 22050
DefaultSampleRate == 22050
\* line 24 and line 39: hop_length=512
HopLength == 512
\* line 47: scipy.signal.filtfilt's default padlen, 3 * max(len(a), len(b)) for order 2
Padlen == 9
\* line 71: the threshold 1.0 of the brightness test, in tenths
BrightnessOne == 10
\* Python's None; temporary files are named 1, 2, ...
None == 0
\* recorded inputs hold 300 or 22050 samples or up to MaxFrames whole hops
MaxFrames == 1

\* a path that names no file, and the name of a file holding non-finite samples
MissingPath == -2
NonFinitePath == -1

CeilDiv(a, b) == (a + b - 1) \div b

\* audio content: where it was decoded from and what has been done to it
Raw(rate, n, finite) ==
    [rate0 |-> rate, n0 |-> n, finite |-> finite, rate |-> rate, len |-> n,
     pitched |-> FALSE, n_steps |-> 0, spectrum |-> <<>>,
     blended |-> FALSE, normalized |-> FALSE]

NoAudio == Raw(0, 0, TRUE)

\* the rows of np.abs(stft), row i labelled i + 1
RowLabels == [k \in 1..MaxBins |-> k]

InputLens == {0, 300, 22050} \cup {k * HopLength : k \in 1..MaxFrames}

NoInput == [kind |-> "none", rate |-> 0, n |-> 0, ok |-> TRUE, path |-> None]

\* what the Audio component (type="numpy") or a caller can pass
AudioInputs ==
    {NoInput}
    \cup {[kind |-> "tuple", rate |-> DefaultSampleRate, n |-> n, ok |-> TRUE,
           path |-> None] : n \in InputLens}
    \cup {[kind |-> "tuple", rate |-> 2 * DefaultSampleRate,
           n |-> 2 * DefaultSampleRate, ok |-> TRUE, path |-> None]}
    \cup {[kind |-> "tuple", rate |-> DefaultSampleRate, n |-> HopLength,
           ok |-> FALSE, path |-> None]}
    \cup {[kind |-> "path", rate |-> 0, n |-> 0, ok |-> TRUE, path |-> q] :
            q \in {MissingPath, NonFinitePath}}

\* line 131: the defaults 4.0, 1.2 (here FactorDen + 1 over FactorDen), 1.1
DefaultParams ==
    [semitones |-> 4, factor |-> FactorDen + 1, brightness |-> BrightnessOne + 1]

\* the slider values drawn: semitones, formant factor (over FactorDen),
\* brightness (in tenths); every pitch and formant setting at the default
\* brightness, and every brightness at the default pitch and formant
ParamSets ==
    {p \in [semitones : {0, 4}, factor : {FactorDen, FactorDen + 1},
            brightness : {BrightnessOne - 1, BrightnessOne, BrightnessOne + 1,
                          BrightnessOne + 5}] :
        \/ p.brightness = DefaultParams.brightness
        \/ p.semitones = DefaultParams.semitones /\ p.factor = DefaultParams.factor}

\* the messages of lines 99, 122, 124 and 127
MsgNoInput == "record or upload a voice first"
MsgSuccess == "conversion complete"
MsgConvertError == "an error occurred during conversion"
MsgException == "error during processing: str(e)"

\* a temporary name that is the same for every call
TempNameFixed(count) == 1

\* lines 78 and 107: tempfile.NamedTemporaryFile picks a name not in use
TempName(count) == count + 1

\* line 62: librosa.load(path, sr=sr) decodes and resamples to sr
LoadAudio(content, sr) ==
    [content EXCEPT !.rate = sr,
                    !.len = IF content.rate = 0 THEN 0
                            ELSE CeilDiv(content.len * sr, content.rate)]

\* a pitch_shift that returns at once when there is nothing to shift
PitchTransformCallsBypass(semitones) == IF semitones = 0 THEN 0 ELSE 1

\* line 19: the calls of librosa.effects.pitch_shift one pitch_shift makes
PitchTransformCalls(semitones) == 1

\* line 19: librosa.effects.pitch_shift keeps the sample count (fix_length)
PitchShifted(a, semitones) ==
    [a EXCEPT !.pitched = PitchTransformCalls(semitones) > 0,
              !.n_steps = semitones]

\* lines 24 and 39: stft (centered) yields 1 + n \div hop frames, and istft
\* without length= returns hop * (frames - 1) samples
FormantLen(n) == HopLength * ((1 + n \div HopLength) - 1)

\* lines 21-39
FormantShifted(a, f) ==
    [a EXCEPT !.len = FormantLen(a.len),
              !.spectrum = FormantBins(MaxBins, f, RowLabels).new_magnitude]

\* lines 44-50: 0.7 * audio + 0.3 * filtfilt(b, a, audio)
Brightened(a) == [a EXCEPT !.blended = TRUE]

\* line 75
Normalized(a) == [a EXCEPT !.normalized = TRUE]

\* a gate that also opens at 1.0
GateInclusive(brightness) == brightness >= BrightnessOne

\* line 71: if brightness > 1.0
Gate(brightness) == brightness > BrightnessOne

\* a handler that starts the conversion again
ConvertHandlerRetry == "load"

\* lines 83-85: except Exception: print, return None
ConvertHandler == "except"

\* no handler around the body of process_voice
ProcessHandlerMissing == "escaped"

\* lines 126-127: except Exception: return None, message
ProcessHandler == "except_pv"

RequestsInit ==
    /\ FormantIdle /\ NormalizeIdle
    /\ sample_rate = DefaultSampleRate
    /\ temp_count = 0
    /\ files = (NonFinitePath :> Raw(DefaultSampleRate, HopLength, FALSE))
    /\ audio_input \in [Requests -> AudioInputs]
    /\ params \in [Requests -> ParamSets]
    /\ \A r \in Requests :
          \* a request that cannot reach the conversion keeps the defaults, one
          \* whose recording is shorter than a hop varies the brightness alone
          /\ (audio_input[r].kind # "tuple" \/ ~audio_input[r].ok)
                => params[r] = DefaultParams
          /\ audio_input[r].n < HopLength
                => params[r] \in {[DefaultParams EXCEPT !.brightness = b] :
                                    b \in {BrightnessOne, BrightnessOne + 1}}
    /\ pc = [r \in Requests |-> "start"]
    /\ input_path = [r \in Requests |-> None]
    /\ audio = [r \in Requests |-> NoAudio]
    /\ calls = [r \in Requests |-> <<>>]
    /\ pv_calls = [r \in Requests |-> 0]
    /\ failed = [r \in Requests |-> -1]
    /\ output_path = [r \in Requests |-> None]
    /\ result = [r \in Requests |-> [path |-> None, msg |-> ""]]

\* an exception raised inside convert_to_female_voice's try block
Raise(r, stage) ==
    /\ calls' = [calls EXCEPT ![r] = Append(@, stage)]
    /\ failed' = [failed EXCEPT ![r] = Len(calls[r]) + 1]
    /\ pc' = [pc EXCEPT ![r] = ConvertHandler]

\* lines 98-99
ReturnNoInput(r) ==
    /\ pc[r] = "start"
    /\ audio_input[r].kind = "none"
    /\ result' = [result EXCEPT ![r] = [path |-> None, msg |-> MsgNoInput]]
    /\ pc' = [pc EXCEPT ![r] = "done"]
    /\ UNCHANGED <<fvars, nvars, svars, audio_input, params, input_path, audio,
                   calls, pv_calls, failed, output_path>>

\* lines 103-109: the tuple is written to a fresh temporary file
WriteTempInput(r) ==
    /\ pc[r] = "start"
    /\ audio_input[r].kind = "tuple"
    /\ audio_input[r].ok
    /\ LET name == TempName(temp_count)
       IN  /\ temp_count' = temp_count + 1
           /\ files' = (name :> Raw(audio_input[r].rate, audio_input[r].n, TRUE)) @@ files
           /\ input_path' = [input_path EXCEPT ![r] = name]
    /\ pc' = [pc EXCEPT ![r] = "load"]
    /\ UNCHANGED <<fvars, nvars, sample_rate, audio_input, params, audio, calls,
                   pv_calls, failed, output_path, result>>

\* lines 107-108 when wavfile.write rejects the data: the file was created,
\* the exception goes to line 126
WriteTempInputRaise(r) ==
    /\ pc[r] = "start"
    /\ audio_input[r].kind = "tuple"
    /\ ~audio_input[r].ok
    /\ temp_count' = temp_count + 1
    /\ pc' = [pc EXCEPT ![r] = ProcessHandler]
    /\ UNCHANGED <<fvars, nvars, sample_rate, files, audio_input, params, input_path,
                   audio, calls, pv_calls, failed, output_path, result>>

\* lines 110-111
UsePath(r) ==
    /\ pc[r] = "start"
    /\ audio_input[r].kind = "path"
    /\ input_path' = [input_path EXCEPT ![r] = audio_input[r].path]
    /\ pc' = [pc EXCEPT ![r] = "load"]
    /\ UNCHANGED <<fvars, nvars, svars, audio_input, params, audio, calls, pv_calls,
                   failed, output_path, result>>

\* line 62
Load(r) ==
    /\ pc[r] = "load"
    /\ input_path[r] \in DOMAIN files
    /\ audio' = [audio EXCEPT ![r] = LoadAudio(files[input_path[r]], sample_rate)]
    /\ calls' = [calls EXCEPT ![r] = Append(@, "load")]
    /\ pc' = [pc EXCEPT ![r] = "pitch_shift"]
    /\ UNCHANGED <<fvars, nvars, svars, audio_input, params, input_path, pv_calls,
                   failed, output_path, result>>

\* line 62 when the path names no readable file
LoadRaise(r) ==
    /\ pc[r] = "load"
    /\ input_path[r] \notin DOMAIN files
    /\ Raise(r, "load")
    /\ UNCHANGED <<fvars, nvars, svars, audio_input, params, input_path, audio,
                   pv_calls, output_path, result>>

\* line 65
PitchShift(r) ==
    /\ pc[r] = "pitch_shift"
    /\ audio[r].finite
    /\ audio' = [audio EXCEPT ![r] = PitchShifted(@, params[r].semitones)]
    /\ pv_calls' = [pv_calls EXCEPT ![r] = @ + PitchTransformCalls(params[r].semitones)]
    /\ calls' = [calls EXCEPT ![r] = Append(@, "pitch_shift")]
    /\ pc' = [pc EXCEPT ![r] = "formant_shift"]
    /\ UNCHANGED <<fvars, nvars, svars, audio_input, params, input_path, failed,
                   output_path, result>>

\* line 65 when librosa rejects the buffer: non-finite samples always, an
\* empty buffer depending on the resampling librosa has to do
PitchShiftRaise(r) ==
    /\ pc[r] = "pitch_shift"
    /\ ~audio[r].finite \/ audio[r].len = 0
    /\ pv_calls' = [pv_calls EXCEPT ![r] = @ + PitchTransformCalls(params[r].semitones)]
    /\ Raise(r, "pitch_shift")
    /\ UNCHANGED <<fvars, nvars, svars, audio_input, params, input_path, audio,
                   output_path, result>>

\* line 68, then the test of line 71
FormantShift(r) ==
    /\ pc[r] = "formant_shift"
    /\ audio' = [audio EXCEPT ![r] = FormantShifted(@, params[r].factor)]
    /\ calls' = [calls EXCEPT ![r] = Append(@, "formant_shift")]
    /\ pc' = [pc EXCEPT ![r] = IF Gate(params[r].brightness)
                               THEN "apply_female_characteristics"
                               ELSE "normalize"]
    /\ UNCHANGED <<fvars, nvars, svars, audio_input, params, input_path, pv_calls,
                   failed, output_path, result>>

\* line 68 on fewer samples than one hop: the spectrum has a single frame, and
\* librosa.istft either returns the empty buffer (FormantShift) or raises,
\* depending on the librosa release
FormantShiftRaise(r) ==
    /\ pc[r] = "formant_shift"
    /\ audio[r].len < HopLength
    /\ Raise(r, "formant_shift")
    /\ UNCHANGED <<fvars, nvars, svars, audio_input, params, input_path, audio,
                   pv_calls, output_path, result>>

\* line 72
ApplyFemaleCharacteristics(r) ==
    /\ pc[r] = "apply_female_characteristics"
    /\ audio[r].len > Padlen
    /\ audio' = [audio EXCEPT ![r] = Brightened(@)]
    /\ calls' = [calls EXCEPT ![r] = Append(@, "apply_female_characteristics")]
    /\ pc' = [pc EXCEPT ![r] = "normalize"]
    /\ UNCHANGED <<fvars, nvars, svars, audio_input, params, input_path, pv_calls,
                   failed, output_path, result>>

\* line 72 when filtfilt is given no more than padlen samples: ValueError
ApplyFemaleCharacteristicsRaise(r) ==
    /\ pc[r] = "apply_female_characteristics"
    /\ audio[r].len <= Padlen
    /\ Raise(r, "apply_female_characteristics")
    /\ UNCHANGED <<fvars, nvars, svars, audio_input, params, input_path, audio,
                   pv_calls, output_path, result>>

\* line 75
NormalizeAudio(r) ==
    /\ pc[r] = "normalize"
    /\ audio[r].len > 0
    /\ audio' = [audio EXCEPT ![r] = Normalized(@)]
    /\ calls' = [calls EXCEPT ![r] = Append(@, "normalize")]
    /\ pc' = [pc EXCEPT ![r] = "write"]
    /\ UNCHANGED <<fvars, nvars, svars, audio_input, params, input_path, pv_calls,
                   failed, output_path, result>>

\* line 75 on an empty buffer: np.max of a zero-size array raises ValueError
NormalizeAudioRaise(r) ==
    /\ pc[r] = "normalize"
    /\ audio[r].len = 0
    /\ Raise(r, "normalize")
    /\ UNCHANGED <<fvars, nvars, svars, audio_input, params, input_path, audio,
                   pv_calls, output_path, result>>

\* lines 78-81
WriteOutput(r) ==
    /\ pc[r] = "write"
    /\ LET name == TempName(temp_count)
       IN  /\ temp_count' = temp_count + 1
           /\ files' = (name :> audio[r]) @@ files
           /\ output_path' = [output_path EXCEPT ![r] = name]
    /\ calls' = [calls EXCEPT ![r] = Append(@, "write")]
    /\ pc' = [pc EXCEPT ![r] = "return"]
    /\ UNCHANGED <<fvars, nvars, sample_rate, audio_input, params, input_path, audio,
                   pv_calls, failed, result>>

\* lines 78-79 when the file cannot be created or written (OSError)
WriteOutputRaise(r) ==
    /\ pc[r] = "write"
    /\ Raise(r, "write")
    /\ UNCHANGED <<fvars, nvars, svars, audio_input, params, input_path, audio,
                   pv_calls, output_path, result>>

\* lines 83-85
ExceptConvert(r) ==
    /\ pc[r] = "except"
    /\ output_path' = [output_path EXCEPT ![r] = None]
    /\ pc' = [pc EXCEPT ![r] = "return"]
    /\ UNCHANGED <<fvars, nvars, svars, audio_input, params, input_path, audio,
                   calls, pv_calls, failed, result>>

\* line 84 when print cannot encode the message for the console: the
\* exception leaves the handler and reaches line 126
ExceptConvertPrintRaise(r) ==
    /\ pc[r] = "except"
    /\ pc' = [pc EXCEPT ![r] = ProcessHandler]
    /\ UNCHANGED <<fvars, nvars, svars, audio_input, params, input_path, audio,
                   calls, pv_calls, failed, output_path, result>>

\* lines 121-124
ReturnResult(r) ==
    /\ pc[r] = "return"
    /\ result' = [result EXCEPT ![r] =
                    IF output_path[r] # None
                    THEN [path |-> output_path[r], msg |-> MsgSuccess]
                    ELSE [path |-> None, msg |-> MsgConvertError]]
    /\ pc' = [pc EXCEPT ![r] = "done"]
    /\ UNCHANGED <<fvars, nvars, svars, audio_input, params, input_path, audio,
                   calls, pv_calls, failed, output_path>>

\* lines 126-127
ExceptProcess(r) ==
    /\ pc[r] = "except_pv"
    /\ result' = [result EXCEPT ![r] = [path |-> None, msg |-> MsgException]]
    /\ pc' = [pc EXCEPT ![r] = "done"]
    /\ UNCHANGED <<fvars, nvars, svars, audio_input, params, input_path, audio,
                   calls, pv_calls, failed, output_path>>

Next ==
    \E r \in Requests :
        \/ ReturnNoInput(r)
        \/ WriteTempInput(r)
        \/ WriteTempInputRaise(r)
        \/ UsePath(r)
        \/ Load(r)
        \/ LoadRaise(r)
        \/ PitchShift(r)
        \/ PitchShiftRaise(r)
        \/ FormantShift(r)
        \/ FormantShiftRaise(r)
        \/ ApplyFemaleCharacteristics(r)
        \/ ApplyFemaleCharacteristicsRaise(r)
        \/ NormalizeAudio(r)
        \/ NormalizeAudioRaise(r)
        \/ WriteOutput(r)
        \/ WriteOutputRaise(r)
        \/ ExceptConvert(r)
        \/ ExceptConvertPrintRaise(r)
        \/ ReturnResult(r)
        \/ ExceptProcess(r)

Spec == RequestsInit /\ [][Next]_vars

----------------------------------------------------------------------------
(* Properties of the requests (Spec) *)

Range(q) == {q[k] : k \in DOMAIN q}

IsPrefix(p, q) == Len(p) <= Len(q) /\ \A k \in 1..Len(p) : p[k] = q[k]

\* the sample count librosa.load returned for the content audio a came from
LoadedLen(a) == IF a.rate0 = 0 THEN 0 ELSE CeilDiv(a.n0 * DefaultSampleRate, a.rate0)

\* the stages of one conversion, in the order of lines 62-79
StageOrder(brightness) ==
    <<"load", "pitch_shift", "formant_shift">>
    \o (IF brightness > BrightnessOne THEN <<"apply_female_characteristics">> ELSE <<>>)
    \o <<"normalize", "write">>

Succeeded(r) == pc[r] = "done" /\ result[r].path # None

\* the stage was started by request r and returned
Returned(r, stage) ==
    \E k \in DOMAIN calls[r] : calls[r][k] = stage /\ failed[r] # k

\* C2 as stated: formant_shift returns as many samples as it was given, so a
\* finished conversion holds as many samples as were loaded
C2_SameSampleCount ==
    \A r \in Requests :
        /\ Returned(r, "formant_shift") => audio[r].len = LoadedLen(audio[r])
        /\ Succeeded(r) =>
              files[result[r].path].len = LoadedLen(files[result[r].path])

\* C3: the stages of a request run in the order load, pitch_shift,
\* formant_shift, apply_female_characteristics (only if gated in), normalize,
\* write, each at most once, and after a stage has raised no stage runs again.
C3_StagesInOrderOnce ==
    \A r \in Requests :
        /\ IsPrefix(calls[r], StageOrder(params[r].brightness))
        /\ failed[r] # -1 => Len(calls[r]) = failed[r]
        /\ Succeeded(r) =>
              /\ calls[r] = StageOrder(params[r].brightness)
              /\ failed[r] = -1
        /\ (pc[r] = "done" /\ failed[r] # -1) => result[r].path = None

\* one request failed in its fourth stage and reported it, the other ran all
\* six stages
C3_Witness ==
    \E r1, r2 \in Requests :
        /\ pc[r1] = "done" /\ failed[r1] = 4
        /\ calls[r1][4] = "apply_female_characteristics"
        /\ result[r1].msg = MsgConvertError
        /\ Succeeded(r2) /\ Len(calls[r2]) = 6

\* C4: apply_female_characteristics runs if and only if brightness > 1.0, and
\* two finished conversions of the same input that differ only in brightness,
\* on the same side of 1.0, wrote identical audio.
C4_BrightnessIsGate ==
    /\ \A r \in Requests :
          /\ (pc[r] = "apply_female_characteristics"
                \/ "apply_female_characteristics" \in Range(calls[r]))
                => params[r].brightness > BrightnessOne
          /\ ("normalize" \in Range(calls[r]) /\ params[r].brightness > BrightnessOne)
                => "apply_female_characteristics" \in Range(calls[r])
          /\ audio[r].blended =>
                "apply_female_characteristics" \in Range(calls[r])
    /\ \A r1, r2 \in Requests :
          (/\ Succeeded(r1) /\ Succeeded(r2)
           /\ audio_input[r1] = audio_input[r2]
           /\ params[r1].semitones = params[r2].semitones
           /\ params[r1].factor = params[r2].factor
           /\ (params[r1].brightness > BrightnessOne
                 <=> params[r2].brightness > BrightnessOne))
              => files[result[r1].path] = files[result[r2].path]

\* two finished conversions of one input with brightness 1.1 and 1.5, both
\* brightened, with the same audio written
C4_Witness ==
    \E r1, r2 \in Requests :
        /\ Succeeded(r1) /\ Succeeded(r2)
        /\ audio_input[r1] = audio_input[r2]
        /\ params[r1].semitones = params[r2].semitones
        /\ params[r1].factor = params[r2].factor
        /\ params[r1].brightness = BrightnessOne + 1
        /\ params[r2].brightness = BrightnessOne + 5
        /\ files[result[r1].path].blended
        /\ result[r1].path # result[r2].path
        /\ files[result[r1].path] = files[result[r2].path]

FailureMessages == {MsgNoInput, MsgConvertError, MsgException}

\* C5: no exception leaves process_voice; a finished call returned either
\* (None, a non-empty diagnostic) or (an output path, the success message),
\* and it returned None whenever a stage raised.
C5_NoExceptionEscapes ==
    \A r \in Requests :
        /\ pc[r] # "escaped"
        /\ pc[r] = "done" =>
              /\ result[r].msg # ""
              /\ result[r].path = None <=> result[r].msg # MsgSuccess
              /\ result[r].path = None => result[r].msg \in FailureMessages
              /\ result[r].path # None => result[r].path \in DOMAIN files
              /\ failed[r] # -1 => result[r].path = None
              /\ audio_input[r].kind = "none" => result[r].msg = MsgNoInput
              /\ ~audio_input[r].ok => result[r].msg = MsgException

\* one call ended in the handler of line 126, the other in the one of line 83
C5_Witness ==
    \E r1, r2 \in Requests :
        /\ pc[r1] = "done" /\ result[r1] = [path |-> None, msg |-> MsgException]
        /\ pc[r2] = "done" /\ result[r2] = [path |-> None, msg |-> MsgConvertError]
        /\ failed[r2] # -1

\* what one request returns when it runs with no other request
ConvertAlone(inp, par) ==
    LET a1 == LoadAudio(Raw(inp.rate, inp.n, TRUE), DefaultSampleRate)
        a2 == PitchShifted(a1, par.semitones)
        a3 == FormantShifted(a2, par.factor)
        bright == par.brightness > BrightnessOne
        a4 == IF bright THEN Brightened(a3) ELSE a3
        good == /\ inp.kind = "tuple" /\ inp.ok
                /\ a3.len > 0
                /\ bright => a3.len > Padlen
    IN  [ok |-> good, audio |-> Normalized(a4)]

\* C7: converter.sample_rate stays 22050; no request reads a file or a buffer
\* of another; a request that returns a path wrote what it would have written
\* alone, and one that must fail alone fails.
C7_RequestsIsolated ==
    /\ sample_rate = DefaultSampleRate
    /\ \A r \in Requests :
          LET alone == ConvertAlone(audio_input[r], params[r])
          IN  /\ Succeeded(r) =>
                    alone.ok /\ files[result[r].path] = alone.audio
              /\ (pc[r] = "done" /\ ~alone.ok) => result[r].path = None
              /\ ("load" \in Range(calls[r]) /\ failed[r] # 1
                    /\ audio_input[r].kind = "tuple") =>
                    /\ audio[r].n0 = audio_input[r].n
                    /\ audio[r].rate0 = audio_input[r].rate
    /\ \A r1, r2 \in Requests :
          r1 # r2 =>
              /\ (input_path[r1] > None) => input_path[r1] # input_path[r2]
              /\ (input_path[r1] > None) => input_path[r1] # output_path[r2]
              /\ (output_path[r1] # None) => output_path[r1] # output_path[r2]

\* two requests with different recordings and different settings both
\* finished with a result
C7_Witness ==
    \E r1, r2 \in Requests :
        /\ Succeeded(r1) /\ Succeeded(r2)
        /\ audio_input[r1].n # audio_input[r2].n
        /\ audio_input[r1].rate # audio_input[r2].rate
        /\ params[r1] # params[r2]
        /\ files[result[r1].path] # files[result[r2].path]

\* C8 as stated: with semitones = 0 pitch_shift returns its input without
\* invoking the transform, and with factor = 1.0 formant_shift maps every bin
\* to itself
C8_NeutralBypasses ==
    \A r \in Requests :
        /\ (params[r].semitones = 0 /\ "pitch_shift" \in Range(calls[r])) =>
              pv_calls[r] = 0
        /\ (params[r].factor = FactorDen /\ Returned(r, "formant_shift")) =>
              audio[r].spectrum = RowLabels

\* C8 (amended): with semitones = 0 pitch_shift does not bypass anything: it
\* invokes librosa.effects.pitch_shift once with n_steps = 0, as for any other
\* value, and the result has the sample count of its input; with factor = 1.0
\* formant_shift maps every bin i to bin i, so the new magnitude spectrum
\* equals the original one.
C8_NeutralParameters ==
    \A r \in Requests :
        /\ (params[r].semitones = 0 /\ "pitch_shift" \in Range(calls[r])) =>
              /\ pv_calls[r] = 1
              /\ audio[r].n_steps = 0
              /\ pc[r] = "formant_shift" => audio[r].len = LoadedLen(audio[r])
        /\ (params[r].factor = FactorDen /\ Returned(r, "formant_shift")) =>
              audio[r].spectrum = RowLabels

\* a request with semitones = 0 and factor = 1.0 past its formant shift
C8_Witness ==
    \E r \in Requests :
        /\ params[r].semitones = 0
        /\ params[r].factor = FactorDen
        /\ Returned(r, "formant_shift")
        /\ pv_calls[r] = 1
        /\ audio[r].pitched
        /\ audio[r].spectrum = RowLabels
        /\ audio[r].len > 0

====
